---------------------------- MODULE Spec2Model ----------------------------
(***************************************************************************)
(* Model of the bounded-context agent loop of                              *)
(* workflows/code_implementation_workflow_index.py                         *)
(* (CodeImplementationWorkflowWithIndex) together with the response        *)
(* parsing of tools/gpt_client.py (GPTClient).                             *)
(*                                                                         *)
(* One behaviour is one call of run_workflow(pure_code_mode = True).       *)
(* CodeImplementationAgent and ConciseMemoryAgent are imported from        *)
(* workflows/agents, which is not part of the sources at hand; their       *)
(* operations are modelled from the design document (sections 4.2-4.4).    *)
(***************************************************************************)
EXTENDS Integers, Sequences, FiniteSets, TLC

(***************************************************************************)
(* Bounds.  The limits of the loop are 500 rounds, 5000 seconds and 500    *)
(* messages in the source; they are scaled down so that every limit is     *)
(* reached within a few rounds.                                            *)
(***************************************************************************)
\* while iteration < max_iterations  (500 in the source)
max_iterations == 5

\* if elapsed_time > max_time: break  (5000 in the source)
max_time == 4

\* if len(messages) > 500: emergency trim
MessageCeiling == 6

\* longest duration of one awaited model call, in clock ticks
MaxCallDuration == 2

\* window of the loop detector (K = 3 in the design document)
LoopWindow == 3

(***************************************************************************)
(* Text.  A text is a sequence of tokens; a token stands for a run of      *)
(* characters.  "ws" is white space, the other tokens are the phrases the  *)
(* code looks for, in the letter case the model wrote them, or prose.      *)
(***************************************************************************)
\* str.lower() left out: the tokens are compared as written
LowerToken_Identity(tok) == tok

\* str.lower() on one token
LowerToken(tok) ==
    CASE tok = "All Files Implemented" -> "all files implemented"
      [] tok = "Implementation Complete" -> "implementation complete"
      [] OTHER -> tok

\* str.lower()
Lower(text) == [i \in 1..Len(text) |-> LowerToken(text[i])]

RECURSIVE LStrip(_)
LStrip(text) ==
    IF text # <<>> /\ Head(text) = "ws" THEN LStrip(Tail(text)) ELSE text

RECURSIVE RStrip(_)
RStrip(text) ==
    IF text # <<>> /\ text[Len(text)] = "ws"
    THEN RStrip(SubSeq(text, 1, Len(text) - 1))
    ELSE text

\* str.strip()
Strip(text) == RStrip(LStrip(text))

\* keyword in text
Contains(text, keyword) == \E i \in 1..Len(text) : text[i] = keyword

\* the keyword list of the completion check
CompletionKeywords ==
    { "all files implemented",
      "all phases completed",
      "reproduction plan fully implemented",
      "all code of repo implementation complete" }

\* any(keyword in response_content.lower() for keyword in [...])
IsComplete(response_content) ==
    \E keyword \in CompletionKeywords : Contains(Lower(response_content), keyword)

(***************************************************************************)
(* Tool calls and the answers of the model API.                            *)
(***************************************************************************)
WriteTools == {"write_file"}
ReadTools == {"read_file", "read_code_mem", "search_code_references"}

\* a tool call the model asks for: input is the text among its arguments
\* (the content of a file to write); ok tells whether the tool collaborator
\* succeeds when the call is executed (FALSE: e.g. the file is missing)
ToolCall(name, path, input, ok) ==
    [name |-> name, path |-> path, input |-> input, ok |-> ok]

\* the tool-call batches a model answer may carry
CallBatches ==
    { <<>>,
      <<ToolCall("write_file", "a.py", <<"code">>, TRUE)>>,
      <<ToolCall("write_file", "a.py", <<"code">>, FALSE)>>,
      <<ToolCall("write_file", "README.md", <<"all files implemented">>, TRUE)>>,
      <<ToolCall("read_file", "a.py", <<>>, TRUE)>>,
      <<ToolCall("read_file", "missing.py", <<>>, FALSE)>>,
      <<ToolCall("read_file", "a.py", <<>>, TRUE),
        ToolCall("write_file", "b.py", <<"code">>, TRUE)>> }

\* the message texts a model answer may carry
AnswerTexts ==
    { <<>>,
      <<"ws">>,
      <<"prose">>,
      <<"prose", "All Files Implemented", "ws">>,
      <<"Implementation Complete">> }

\* the response objects of client.responses.create
ApiResponses == [text : AnswerTexts, tool_calls : CallBatches]

NoApiResponse == [text |-> <<>>, tool_calls |-> <<>>]

\* GPTClient._extract_tool_calls
ExtractToolCalls(api) == api.tool_calls

\* the text json.dumps gives for a list of tool calls: names and inputs
RECURSIVE DumpToolCalls(_)
DumpToolCalls(calls) ==
    IF calls = <<>> THEN <<>>
    ELSE <<Head(calls).name, Head(calls).path>> \o Head(calls).input
         \o DumpToolCalls(Tail(calls))

\* GPTClient._parse_response: the result is always a string.  With tool
\* calls it is the JSON dump of {"tool_calls": ..., "content": "I'll help
\* you with this task using the available tools."}, otherwise the text
ParseResponse(api) ==
    IF ExtractToolCalls(api) # <<>>
    THEN <<"tool_calls">> \o DumpToolCalls(ExtractToolCalls(api))
         \o <<"content", "prose">>
    ELSE api.text

(***************************************************************************)
(* Messages and the texts the workflow builds.                             *)
(***************************************************************************)
Message(role, content) == [role |-> role, content |-> content]

\* PURE_CODE_IMPLEMENTATION_SYSTEM_PROMPT_INDEX / code_agent.get_system_prompt()
SystemPrompt == <<"system_prompt">>

\* implementation_message of implement_code_pure
InitialTask == Message("user", <<"task", "plan_content">>)

\* substituted for an empty answer
ContinueText == <<"Continue implementing code files...">>

\* _generate_success_guidance
GenerateSuccessGuidance(files_count) ==
    <<"success_guidance", ToString(files_count)>>

\* _generate_error_guidance
GenerateErrorGuidance == <<"error_guidance">>

\* _generate_no_tools_guidance returning the success template
GenerateNoToolsGuidance_AsSuccess(files_count) ==
    <<"success_guidance", ToString(files_count)>>

\* _generate_no_tools_guidance
GenerateNoToolsGuidance(files_count) ==
    <<"no_tools_guidance", ToString(files_count)>>

\* code_agent.get_analysis_loop_guidance()
AnalysisLoopGuidance == <<"analysis_loop_guidance">>

\* _validate_messages: keep the messages whose stripped content is not
\* empty, with the content stripped
ValidateMessages(msgs) ==
    LET stripped == [i \in 1..Len(msgs) |->
                        Message(msgs[i].role, Strip(msgs[i].content))]
    IN  SelectSeq(stripped, LAMBDA m : m.content # <<>>)

\* _call_gpt_client_with_tools, combined_input: the conversation the model
\* reads is the system message followed by the validated messages, or by a
\* fixed request when no message is left
CombinedInput(system_message, msgs) ==
    LET validated == ValidateMessages(msgs)
    IN  <<Message("system", system_message)>> \o
        (IF validated = <<>>
         THEN <<Message("user", <<"Please continue implementing code">>)>>
         ELSE validated)

\* the text one tool result contributes to the compiled response
ResultBlock(tool_result) ==
    <<"Tool:", tool_result.tool_name, "Result:">> \o tool_result.result.text

RECURSIVE ResultBlocks(_)
ResultBlocks(tool_results) ==
    IF tool_results = <<>> THEN <<>>
    ELSE ResultBlock(Head(tool_results)) \o ResultBlocks(Tail(tool_results))

\* _compile_user_response
CompileUserResponse(tool_results, guidance) ==
    LET results_part == IF tool_results # <<>>
                        THEN <<"Tool Execution Results:">> \o ResultBlocks(tool_results)
                        ELSE <<>>
        guidance_part == IF guidance # <<>> THEN <<"ws">> \o guidance ELSE <<>>
    IN  IF results_part # <<>> /\ guidance_part # <<>>
        THEN results_part \o <<"ws">> \o guidance_part
        ELSE results_part \o guidance_part

\* one result of _check_tool_results_for_errors' loop body.  form tells the
\* shape of result["result"]: "json" has a content list whose first text
\* parses as JSON, "str" is a string, "dict" is any other object without a
\* content attribute (no branch looks at it), and anything else has a
\* content whose text is not JSON (the except branch)
ResultHasError(result) ==
    CASE result.form = "json" -> result.status = "error"
      [] result.form = "str"  -> Contains(Lower(result.text), "error")
      [] result.form = "dict" -> FALSE
      [] OTHER                -> Contains(Lower(result.text), "error")

\* _check_tool_results_for_errors
CheckToolResultsForErrors(tool_results) ==
    \E i \in 1..Len(tool_results) : ResultHasError(tool_results[i].result)

(***************************************************************************)
(* CodeImplementationAgent (design document, sections 4.3 and 4.4).        *)
(***************************************************************************)
\* the result of executing one call: an exception of the tool collaborator
\* becomes a result with status error
ExecuteToolCall(call) ==
    [tool_name |-> call.name,
     result |-> [form |-> "json",
                 status |-> IF call.ok THEN "ok" ELSE "error",
                 text |-> IF call.ok THEN <<"output", call.path>>
                          ELSE <<"error", call.path>>]]

\* execute_tool_calls: one result per call, in the order of the calls
ExecuteToolCalls(calls) == [i \in 1..Len(calls) |-> ExecuteToolCall(calls[i])]

\* the records appended by the successful write calls of a batch
RECURSIVE WrittenFiles(_, _)
WrittenFiles(calls, round) ==
    IF calls = <<>> THEN <<>>
    ELSE (IF Head(calls).name \in WriteTools /\ Head(calls).ok
          THEN <<[path |-> Head(calls).path, round_index |-> round]>>
          ELSE <<>>) \o WrittenFiles(Tail(calls), round)

\* the kind of a round for the loop detector
RoundKind(calls) ==
    IF \E i \in 1..Len(calls) : calls[i].name \in WriteTools
    THEN "write" ELSE "read_only"

\* the sliding window of the last LoopWindow rounds with tool calls
PushWindow(window, kind) ==
    LET w == Append(window, kind)
    IN  IF Len(w) > LoopWindow THEN Tail(w) ELSE w

\* is_in_analysis_loop
IsInAnalysisLoop(window) ==
    /\ Len(window) = LoopWindow
    /\ \A i \in 1..Len(window) : window[i] = "read_only"

(***************************************************************************)
(* ConciseMemoryAgent (design document, section 4.2).                      *)
(***************************************************************************)
\* record_tool_result, on the essential results
RecordEssential(essential, call, tool_result) ==
    IF call.name \in ReadTools
    THEN Append(essential, tool_result)
    ELSE essential

RECURSIVE RecordAllEssential(_, _, _)
RecordAllEssential(essential, calls, tool_results) ==
    IF calls = <<>> \/ tool_results = <<>> THEN essential
    ELSE RecordAllEssential(RecordEssential(essential, Head(calls), Head(tool_results)),
                            Tail(calls), Tail(tool_results))

\* record_tool_result, on last_write_detected
WriteDetected(calls, tool_results) ==
    \E i \in 1..Len(calls) :
        /\ i <= Len(tool_results)
        /\ calls[i].name \in WriteTools
        /\ tool_results[i].result.status = "ok"

\* should_trigger_memory_optimization
ShouldTriggerMemoryOptimization(write_detected, msgs) ==
    write_detected \/ Len(msgs) > MessageCeiling

\* the synthesized message of the essential results
SynthesizedMessage(essential) ==
    Message("user", <<"essential_results">> \o ResultBlocks(essential))

\* apply_memory_optimization: the new value of messages.  The conversation
\* the model reads is the system message followed by messages (see
\* CombinedInput), so the retained conversation [system, initial task,
\* synthesized] is the list [initial task, synthesized] behind the system
\* message the caller passes along
ApplyMemoryOptimization(system_message, essential) ==
    << InitialTask, SynthesizedMessage(essential) >>

(***************************************************************************)
(* State.                                                                  *)
(***************************************************************************)
VARIABLES
    pc,                  \* position in run_workflow
    exception,           \* the exception that is propagating, or "none"
    retval,              \* what run_workflow returns
    mcp_agent,           \* self.mcp_agent: "none" or "entered"
    iteration,           \* iteration of _pure_code_implementation_loop
    now,                 \* time.time() - start_time
    messages,            \* the conversation
    api_response,        \* the last response object of the model API
    response,            \* the last result of _call_llm_with_tools
    response_content,    \* response_content of the current round
    files_implemented,   \* code agent: the file implementation records
    recent_rounds,       \* code agent: window of the loop detector
    essential_results,   \* memory agent: essential results since compaction
    last_write_detected, \* memory agent
    current_round,       \* memory agent: round given to start_new_round
    implemented_files,   \* memory agent: files given to record_file_implementation
    operation_history,   \* MCP server: the tool ledger
    cause,               \* why the loop ended: none, complete, timeout, maxiter, error
    llm_calls,           \* history: number of model calls made
    dispatched,          \* history: number of tool calls dispatched
    compactions,         \* history: number of compactions applied
    round_log,           \* history: what the last handled round did
    script,              \* history: shape of the model's answers so far
    script_n,            \* history: number of leading single-write rounds
    read_streak,         \* history: latest consecutive rounds asking only for reads
    history_query,       \* history: get_operation_history: none, returned, raised
    agent_contexts       \* history: the __aenter__ and __aexit__ calls on the agents

vars == << pc, exception, retval, mcp_agent, iteration, now, messages,
           api_response, response, response_content, files_implemented,
           recent_rounds, essential_results, last_write_detected,
           current_round, implemented_files, operation_history, cause,
           llm_calls, dispatched, compactions, round_log, script, script_n,
           read_streak, history_query, agent_contexts >>

workflow_vars == << pc, exception, retval, mcp_agent >>
loop_vars == << iteration, now, messages, api_response, response, response_content >>
agent_vars == << files_implemented, recent_rounds, essential_results,
                 last_write_detected, current_round, implemented_files,
                 operation_history >>
history_vars == << llm_calls, dispatched, compactions, round_log, script,
                   script_n, read_streak, history_query, agent_contexts >>

NoReport == [kind |-> "none", iterations |-> 0, files_implemented |-> 0,
             write_operations |-> 0]

NoRetval == [status |-> "none", message |-> "none", code_implementation |-> NoReport]

NoRound == [branch |-> "none", tool_results |-> <<>>, guidance |-> "none",
            analysis_loop |-> FALSE, compacted |-> FALSE, length_before |-> 0,
            appended |-> <<>>]

NoResponse == [content |-> <<>>, tool_calls |-> <<>>]

\* an Agent object on which nothing has been called
NoContext == [aenter_calls |-> 0, entered |-> 0, aexit_calls |-> 0]

\* an Agent whose __aenter__ has returned
EnteredContext == [aenter_calls |-> 1, entered |-> 1, aexit_calls |-> 0]

\* an Agent whose __aenter__ has returned and whose __aexit__ was called
ClosedContext == [aenter_calls |-> 1, entered |-> 1, aexit_calls |-> 1]

NoContexts == [structure_agent |-> NoContext, mcp_agent |-> NoContext]

\* the contexts while the loop runs, the file tree having existed
LoopContexts == [structure_agent |-> NoContext, mcp_agent |-> EnteredContext]

Init ==
    /\ pc = "start"
    /\ exception = "none"
    /\ retval = NoRetval
    /\ mcp_agent = "none"
    /\ iteration = 0
    /\ now = 0
    /\ messages = <<>>
    /\ api_response = NoApiResponse
    /\ response = NoResponse
    /\ response_content = <<>>
    /\ files_implemented = <<>>
    /\ recent_rounds = <<>>
    /\ essential_results = <<>>
    /\ last_write_detected = FALSE
    /\ current_round = 0
    /\ implemented_files = {}
    /\ operation_history = <<>>
    /\ cause = "none"
    /\ llm_calls = 0
    /\ dispatched = 0
    /\ compactions = 0
    /\ round_log = NoRound
    /\ script = "writes"
    /\ script_n = 0
    /\ read_streak = 0
    /\ history_query = "none"
    /\ agent_contexts = NoContexts

(***************************************************************************)
(* run_workflow and implement_code_pure up to the call of the loop.        *)
(***************************************************************************)
\* what can go wrong before the loop starts
SetupFailures ==
    { "File tree creation failed",
      "File tree structure not found, please run file tree creation first",
      "No available LLM API - please check your OpenAI API key in configuration",
      "Failed to initialize MCP agent" }

\* create_file_structure, or nothing when the file tree exists: what has
\* been called on the structure agent when it returns
StructureContexts == {NoContext, ClosedContext}

\* the setup succeeds: the agent is entered, the conversation holds the
\* initial task and the loop starts with iteration 0
SetupOk ==
    /\ pc = "start"
    /\ mcp_agent' = "entered"
    /\ \E structure \in StructureContexts :
        agent_contexts' = [structure_agent |-> structure,
                           mcp_agent |-> EnteredContext]
    /\ messages' = <<InitialTask>>
    /\ iteration' = 0
    /\ now' = 0
    /\ current_round' = 0
    /\ pc' = "loop_head"
    /\ UNCHANGED << exception, retval, api_response, response, response_content,
                    files_implemented, recent_rounds, essential_results,
                    last_write_detected, implemented_files, operation_history,
                    cause >>
    /\ UNCHANGED << llm_calls, dispatched, compactions, round_log, script,
                    script_n, read_streak, history_query >>

\* the setup raises.  create_file_structure enters the structure agent and
\* exits it in its finally only if entered; _initialize_mcp_agent's except
\* branch exits self.mcp_agent whenever it is set, then resets it to None
SetupFails ==
    /\ pc = "start"
    /\ \/ \* structure_agent.__aenter__() raises
          /\ exception' = "File tree creation failed"
          /\ agent_contexts' =
                 [agent_contexts EXCEPT !.structure_agent =
                     [aenter_calls |-> 1, entered |-> 0, aexit_calls |-> 0]]
       \/ \* attach_llm or generate_str raises
          /\ exception' = "File tree creation failed"
          /\ agent_contexts' =
                 [agent_contexts EXCEPT !.structure_agent = ClosedContext]
       \/ \* the code directory is missing, or GPTClient() raises
          /\ exception' \in
                 { "File tree structure not found, please run file tree creation first",
                   "No available LLM API - please check your OpenAI API key in configuration" }
          /\ \E structure \in StructureContexts :
                agent_contexts' =
                    [agent_contexts EXCEPT !.structure_agent = structure]
       \/ \* self.mcp_agent.__aenter__() raises
          /\ exception' = "Failed to initialize MCP agent"
          /\ \E structure \in StructureContexts :
                agent_contexts' =
                    [structure_agent |-> structure,
                     mcp_agent |-> [aenter_calls |-> 1, entered |-> 0,
                                    aexit_calls |-> 1]]
       \/ \* attach_llm or call_tool("set_workspace") raises
          /\ exception' = "Failed to initialize MCP agent"
          /\ \E structure \in StructureContexts :
                agent_contexts' =
                    [structure_agent |-> structure, mcp_agent |-> ClosedContext]
    /\ cause' = "error"
    /\ pc' = "unwind"
    /\ UNCHANGED << retval, mcp_agent >>
    /\ UNCHANGED loop_vars
    /\ UNCHANGED agent_vars
    /\ UNCHANGED << llm_calls, dispatched, compactions, round_log, script,
                    script_n, read_streak, history_query >>

(***************************************************************************)
(* _pure_code_implementation_loop.                                         *)
(***************************************************************************)
\* LoopHead with the limit compared by <= : one round too many
LoopHead_InclusiveLimit ==
    /\ pc = "loop_head"
    /\ IF iteration <= max_iterations
       THEN /\ iteration' = iteration + 1
            /\ IF now > max_time
               THEN pc' = "report" /\ cause' = "timeout"
               ELSE pc' = "call_llm" /\ cause' = cause
       ELSE /\ iteration' = iteration
            /\ pc' = "report"
            /\ cause' = "maxiter"
    /\ UNCHANGED << exception, retval, mcp_agent, now, messages, api_response,
                    response, response_content >>
    /\ UNCHANGED agent_vars
    /\ UNCHANGED history_vars

\* LoopHead that stops one round early
LoopHead_ShortLimit ==
    /\ pc = "loop_head"
    /\ IF iteration < max_iterations - 1
       THEN /\ iteration' = iteration + 1
            /\ IF now > max_time
               THEN pc' = "report" /\ cause' = "timeout"
               ELSE pc' = "call_llm" /\ cause' = cause
       ELSE /\ iteration' = iteration
            /\ pc' = "report"
            /\ cause' = "maxiter"
    /\ UNCHANGED << exception, retval, mcp_agent, now, messages, api_response,
                    response, response_content >>
    /\ UNCHANGED agent_vars
    /\ UNCHANGED history_vars

\* LoopHead that treats the time limit as a failure and raises
LoopHead_TimeoutRaises ==
    /\ pc = "loop_head"
    /\ IF iteration < max_iterations
       THEN /\ iteration' = iteration + 1
            /\ IF now > max_time
               THEN pc' = "unwind" /\ cause' = "timeout"
                    /\ exception' = "Time limit reached"
               ELSE pc' = "call_llm" /\ cause' = cause /\ exception' = exception
       ELSE /\ iteration' = iteration
            /\ pc' = "report"
            /\ cause' = "maxiter"
            /\ exception' = exception
    /\ UNCHANGED << retval, mcp_agent, now, messages, api_response,
                    response, response_content >>
    /\ UNCHANGED agent_vars
    /\ UNCHANGED history_vars

\* while iteration < max_iterations: iteration += 1; the time check
LoopHead ==
    /\ pc = "loop_head"
    /\ IF iteration < max_iterations
       THEN /\ iteration' = iteration + 1
            /\ IF now > max_time
               THEN pc' = "report" /\ cause' = "timeout"
               ELSE pc' = "call_llm" /\ cause' = cause
       ELSE /\ iteration' = iteration
            /\ pc' = "report"
            /\ cause' = "maxiter"
    /\ UNCHANGED << exception, retval, mcp_agent, now, messages, api_response,
                    response, response_content >>
    /\ UNCHANGED agent_vars
    /\ UNCHANGED history_vars

\* _call_gpt_client_with_tools: the string of the client becomes the
\* content, and tool_calls is the empty list
CallGptClientWithTools(api) ==
    [content |-> ParseResponse(api), tool_calls |-> <<>>]

\* messages = self._validate_messages(messages); the model call returns
CallLLMReturns ==
    /\ pc = "call_llm"
    /\ messages' = ValidateMessages(messages)
    /\ \E d \in 0..MaxCallDuration : now' = now + d
    /\ \E api \in ApiResponses :
        /\ api_response' = api
        /\ response' = CallGptClientWithTools(api)
    /\ llm_calls' = llm_calls + 1
    /\ pc' = "handle"
    /\ UNCHANGED << exception, retval, mcp_agent, iteration, response_content, cause >>
    /\ UNCHANGED agent_vars
    /\ UNCHANGED << dispatched, compactions, round_log, script, script_n,
                    read_streak, history_query, agent_contexts >>

\* the model call raises: _call_llm_with_tools logs and re-raises
CallLLMRaises ==
    /\ pc = "call_llm"
    /\ messages' = ValidateMessages(messages)
    /\ \E d \in 0..MaxCallDuration : now' = now + d
    /\ llm_calls' = llm_calls + 1
    /\ exception' = "LLM call failed"
    /\ cause' = "error"
    /\ pc' = "unwind"
    /\ UNCHANGED << retval, mcp_agent, iteration, api_response, response, response_content >>
    /\ UNCHANGED agent_vars
    /\ UNCHANGED << dispatched, compactions, round_log, script, script_n,
                    read_streak, history_query, agent_contexts >>

\* the entries the MCP server adds to its operation history for a batch
LoggedOperations(calls) ==
    [i \in 1..Len(calls) |-> [action |-> calls[i].name, file_path |-> calls[i].path]]

\* the model asked for exactly one write call, the call succeeds and
\* carries no completion phrase
SingleWrite(api) ==
    /\ Len(api.tool_calls) = 1
    /\ api.tool_calls[1].name \in WriteTools
    /\ api.tool_calls[1].ok
    /\ ~IsComplete(api.tool_calls[1].input)

\* the model asked for tool calls, none of them a write
OnlyReads(api) ==
    /\ api.tool_calls # <<>>
    /\ \A i \in 1..Len(api.tool_calls) : api.tool_calls[i].name \notin WriteTools

\* the shape of the answers so far, after one more answer
NextScript(old, api) ==
    CASE old = "writes" /\ SingleWrite(api) /\ ~IsComplete(api.text) -> "writes"
      [] old = "writes" /\ api.tool_calls = <<>> /\ IsComplete(api.text) -> "writes_then_done"
      [] OTHER -> "other"

\* the body of the loop from the answer of the model to start_new_round
HandleResponse ==
    /\ pc = "handle"
    /\ LET stripped == Strip(response.content)
           content == IF stripped = <<>> THEN ContinueText ELSE stripped
           assistant == Message("assistant", content)
           calls == response.tool_calls
           has_tools == calls # <<>>
           tool_results == ExecuteToolCalls(calls)
           files == IF has_tools
                    THEN files_implemented \o WrittenFiles(calls, iteration)
                    ELSE files_implemented
           window == IF has_tools
                     THEN PushWindow(recent_rounds, RoundKind(calls))
                     ELSE recent_rounds
           essential == IF has_tools
                        THEN RecordAllEssential(essential_results, calls, tool_results)
                        ELSE essential_results
           write_seen == IF has_tools
                         THEN last_write_detected \/ WriteDetected(calls, tool_results)
                         ELSE last_write_detected
           has_error == CheckToolResultsForErrors(tool_results)
           guidance == IF has_error THEN GenerateErrorGuidance
                       ELSE GenerateSuccessGuidance(Len(files))
           user == IF has_tools
                   THEN Message("user", CompileUserResponse(tool_results, guidance))
                   ELSE Message("user", GenerateNoToolsGuidance(Len(files)))
           appended == Append(Append(messages, assistant), user)
           optimize == has_tools /\ ShouldTriggerMemoryOptimization(write_seen, appended)
           optimized == IF optimize
                        THEN ApplyMemoryOptimization(SystemPrompt, essential)
                        ELSE appended
           in_loop == IsInAnalysisLoop(window)
           corrective == Message("user", AnalysisLoopGuidance)
       IN  /\ response_content' = content
           /\ messages' = IF in_loop THEN Append(optimized, corrective) ELSE optimized
           /\ files_implemented' = files
           /\ recent_rounds' = window
           /\ essential_results' = IF optimize THEN <<>> ELSE essential
           /\ last_write_detected' = IF optimize THEN FALSE ELSE write_seen
           /\ implemented_files' = implemented_files \cup
                                     { files[i].path : i \in 1..Len(files) }
           /\ operation_history' = IF has_tools
                                   THEN operation_history \o LoggedOperations(calls)
                                   ELSE operation_history
           /\ dispatched' = dispatched + Len(calls)
           /\ compactions' = IF optimize THEN compactions + 1 ELSE compactions
           /\ round_log' = [branch |-> IF has_tools THEN "tools" ELSE "no_tools",
                            tool_results |-> tool_results,
                            guidance |-> IF ~has_tools THEN "no_tools"
                                         ELSE IF has_error THEN "error" ELSE "success",
                            analysis_loop |-> in_loop,
                            compacted |-> optimize,
                            length_before |-> IF optimize THEN Len(appended) ELSE 0,
                            appended |-> IF in_loop THEN <<assistant, user, corrective>>
                                         ELSE <<assistant, user>>]
    /\ current_round' = iteration
    /\ script' = NextScript(script, api_response)
    /\ script_n' = IF NextScript(script, api_response) = "writes"
                   THEN script_n + 1 ELSE script_n
    /\ read_streak' = IF OnlyReads(api_response) THEN read_streak + 1 ELSE 0
    /\ pc' = "check"
    /\ UNCHANGED << exception, retval, mcp_agent, iteration, now, api_response,
                    response, cause, llm_calls, history_query, agent_contexts >>

\* CheckCompletion whose trim keeps the latest message of the round
CheckCompletion_KeepsLast ==
    /\ pc = "check"
    /\ IF IsComplete(response_content)
       THEN /\ pc' = "report"
            /\ cause' = "complete"
            /\ UNCHANGED << messages, essential_results, last_write_detected,
                            compactions, round_log >>
       ELSE /\ pc' = "loop_head"
            /\ cause' = cause
            /\ IF Len(messages) > MessageCeiling
               THEN /\ messages' = ApplyMemoryOptimization(SystemPrompt, essential_results)
                                   \o <<messages[Len(messages)]>>
                    /\ essential_results' = <<>>
                    /\ last_write_detected' = FALSE
                    /\ compactions' = compactions + 1
                    /\ round_log' = [round_log EXCEPT !.compacted = TRUE,
                                                      !.length_before = Len(messages)]
               ELSE UNCHANGED << messages, essential_results, last_write_detected,
                                 compactions, round_log >>
    /\ UNCHANGED << exception, retval, mcp_agent, iteration, now, api_response,
                    response, response_content, files_implemented, recent_rounds,
                    current_round, implemented_files, operation_history,
                    llm_calls, dispatched, script, script_n, read_streak,
                    history_query, agent_contexts >>

\* CheckCompletion whose trim keeps the most recent messages only
CheckCompletion_TailTrim ==
    /\ pc = "check"
    /\ IF IsComplete(response_content)
       THEN /\ pc' = "report"
            /\ cause' = "complete"
            /\ UNCHANGED << messages, essential_results, last_write_detected,
                            compactions, round_log >>
       ELSE /\ pc' = "loop_head"
            /\ cause' = cause
            /\ IF Len(messages) > MessageCeiling
               THEN /\ messages' = SubSeq(messages, Len(messages) - 1, Len(messages))
                    /\ essential_results' = <<>>
                    /\ last_write_detected' = FALSE
                    /\ compactions' = compactions + 1
                    /\ round_log' = [round_log EXCEPT !.compacted = TRUE,
                                                      !.length_before = Len(messages)]
               ELSE UNCHANGED << messages, essential_results, last_write_detected,
                                 compactions, round_log >>
    /\ UNCHANGED << exception, retval, mcp_agent, iteration, now, api_response,
                    response, response_content, files_implemented, recent_rounds,
                    current_round, implemented_files, operation_history,
                    llm_calls, dispatched, script, script_n, read_streak,
                    history_query, agent_contexts >>

\* CheckCompletion without the emergency trim
CheckCompletion_NoTrim ==
    /\ pc = "check"
    /\ IF IsComplete(response_content)
       THEN /\ pc' = "report"
            /\ cause' = "complete"
            /\ UNCHANGED << messages, essential_results, last_write_detected,
                            compactions, round_log >>
       ELSE /\ pc' = "loop_head"
            /\ cause' = cause
            /\ IF FALSE
               THEN /\ messages' = ApplyMemoryOptimization(SystemPrompt, essential_results)
                    /\ essential_results' = <<>>
                    /\ last_write_detected' = FALSE
                    /\ compactions' = compactions + 1
                    /\ round_log' = [round_log EXCEPT !.compacted = TRUE,
                                                      !.length_before = Len(messages)]
               ELSE UNCHANGED << messages, essential_results, last_write_detected,
                                 compactions, round_log >>
    /\ UNCHANGED << exception, retval, mcp_agent, iteration, now, api_response,
                    response, response_content, files_implemented, recent_rounds,
                    current_round, implemented_files, operation_history,
                    llm_calls, dispatched, script, script_n, read_streak,
                    history_query, agent_contexts >>

\* the completion check, and the emergency trim of a long conversation
CheckCompletion ==
    /\ pc = "check"
    /\ IF IsComplete(response_content)
       THEN /\ pc' = "report"
            /\ cause' = "complete"
            /\ UNCHANGED << messages, essential_results, last_write_detected,
                            compactions, round_log >>
       ELSE /\ pc' = "loop_head"
            /\ cause' = cause
            /\ IF Len(messages) > MessageCeiling
               THEN /\ messages' = ApplyMemoryOptimization(SystemPrompt, essential_results)
                    /\ essential_results' = <<>>
                    /\ last_write_detected' = FALSE
                    /\ compactions' = compactions + 1
                    /\ round_log' = [round_log EXCEPT !.compacted = TRUE,
                                                      !.length_before = Len(messages)]
               ELSE UNCHANGED << messages, essential_results, last_write_detected,
                                 compactions, round_log >>
    /\ UNCHANGED << exception, retval, mcp_agent, iteration, now, api_response,
                    response, response_content, files_implemented, recent_rounds,
                    current_round, implemented_files, operation_history,
                    llm_calls, dispatched, script, script_n, read_streak,
                    history_query, agent_contexts >>

(***************************************************************************)
(* The final report and the way out of run_workflow.                       *)
(***************************************************************************)
\* number of write_file entries of the operation history
RECURSIVE WriteOperations(_)
WriteOperations(history) ==
    IF history = <<>> THEN 0
    ELSE (IF Head(history).action = "write_file" THEN 1 ELSE 0)
         + WriteOperations(Tail(history))

\* the report text of _generate_pure_code_final_report_with_concise_agents
BuildReport(iterations, files, history) ==
    [kind |-> "report",
     iterations |-> iterations,
     files_implemented |-> Len(files),
     write_operations |-> WriteOperations(history)]

\* "Failed to generate final report: ..."
FailureText == [kind |-> "failure_text", iterations |-> 0,
                files_implemented |-> 0, write_operations |-> 0]

\* {"last_n": 100}: the number of operations asked of the server
\* (100 in the source)
HistoryWindow == 2

\* get_operation_history on the MCP server: the latest last_n operations
GetOperationHistory(history, last_n) ==
    IF Len(history) <= last_n THEN history
    ELSE SubSeq(history, Len(history) - last_n + 1, Len(history))

\* the shapes in which call_tool may hand over the answer: a dict, a
\* string that parses as JSON, a string that does not, any other object
HistoryForms == {"dict", "json_str", "text_str", "object"}

\* history_data["history"]: the history of the answer for a dict or a
\* parsed string; nothing for an unparsable string (the default dict) and
\* for another object, whose __dict__ has no history key
HistoryData(form, history) ==
    IF form \in {"dict", "json_str"}
    THEN GetOperationHistory(history, HistoryWindow)
    ELSE <<>>

\* FinalReport without the try/except: a failing query of the operation
\* history propagates to run_workflow
FinalReport_Unprotected ==
    /\ pc = "report"
    /\ \E history_raises \in BOOLEAN, form \in HistoryForms :
        /\ history_query' = IF mcp_agent # "entered" THEN "none"
                            ELSE IF history_raises THEN "raised" ELSE "returned"
        /\ exception' = IF mcp_agent = "entered" /\ history_raises
                        THEN "get_operation_history failed" ELSE exception
        /\ retval' = [retval EXCEPT !.code_implementation =
                         IF mcp_agent = "entered" /\ history_raises
                         THEN NoReport
                         ELSE BuildReport(iteration, files_implemented,
                                          IF mcp_agent = "entered"
                                          THEN HistoryData(form, operation_history)
                                          ELSE <<>>)]
    /\ pc' = "unwind"
    /\ UNCHANGED << mcp_agent, cause >>
    /\ UNCHANGED loop_vars
    /\ UNCHANGED agent_vars
    /\ UNCHANGED << llm_calls, dispatched, compactions, round_log, script, script_n,
                    read_streak, agent_contexts >>

\* the report is built inside try/except: when the query of the operation
\* history raises, the failure text is returned
FinalReport ==
    /\ pc = "report"
    /\ \E history_raises \in BOOLEAN, form \in HistoryForms :
        /\ history_query' = IF mcp_agent # "entered" THEN "none"
                            ELSE IF history_raises THEN "raised" ELSE "returned"
        /\ retval' = [retval EXCEPT !.code_implementation =
                         IF mcp_agent = "entered" /\ history_raises
                         THEN FailureText
                         ELSE BuildReport(iteration, files_implemented,
                                          IF mcp_agent = "entered"
                                          THEN HistoryData(form, operation_history)
                                          ELSE <<>>)]
    /\ pc' = "unwind"
    /\ UNCHANGED << exception, mcp_agent, cause >>
    /\ UNCHANGED loop_vars
    /\ UNCHANGED agent_vars
    /\ UNCHANGED << llm_calls, dispatched, compactions, round_log, script, script_n,
                    read_streak, agent_contexts >>

\* Unwind whose error dict carries a fixed text instead of str(e)
Unwind_LosesMessage ==
    /\ pc = "unwind"
    /\ mcp_agent' = "none"
    /\ retval' = IF exception # "none"
                 THEN [status |-> "error", message |-> "Workflow execution failed",
                       code_implementation |-> NoReport]
                 ELSE [retval EXCEPT !.status = "success"]
    /\ pc' = "returned"
    /\ UNCHANGED << exception, cause >>
    /\ UNCHANGED loop_vars
    /\ UNCHANGED agent_vars
    /\ agent_contexts' =
           IF mcp_agent = "entered"
           THEN [agent_contexts EXCEPT !.mcp_agent.aexit_calls = @ + 1]
           ELSE agent_contexts
    /\ UNCHANGED << llm_calls, dispatched, compactions, round_log, script,
                    script_n, read_streak, history_query >>

\* Unwind whose first cleanup leaves self.mcp_agent set: the finally of
\* run_workflow exits the agent a second time
Unwind_ClosesTwice ==
    /\ pc = "unwind"
    /\ mcp_agent' = "none"
    /\ retval' = IF exception # "none"
                 THEN [status |-> "error", message |-> exception,
                       code_implementation |-> NoReport]
                 ELSE [retval EXCEPT !.status = "success"]
    /\ pc' = "returned"
    /\ UNCHANGED << exception, cause >>
    /\ UNCHANGED loop_vars
    /\ UNCHANGED agent_vars
    /\ agent_contexts' =
           IF mcp_agent = "entered"
           THEN [agent_contexts EXCEPT !.mcp_agent.aexit_calls = @ + 2]
           ELSE agent_contexts
    /\ UNCHANGED << llm_calls, dispatched, compactions, round_log, script,
                    script_n, read_streak, history_query >>

\* the finally blocks close the agent; run_workflow returns the success
\* dict, or the error dict when an exception arrived at its except branch
Unwind ==
    /\ pc = "unwind"
    /\ mcp_agent' = "none"
    /\ retval' = IF exception # "none"
                 THEN [status |-> "error", message |-> exception,
                       code_implementation |-> NoReport]
                 ELSE [retval EXCEPT !.status = "success"]
    /\ pc' = "returned"
    /\ UNCHANGED << exception, cause >>
    /\ UNCHANGED loop_vars
    /\ UNCHANGED agent_vars
    /\ agent_contexts' =
           IF mcp_agent = "entered"
           THEN [agent_contexts EXCEPT !.mcp_agent.aexit_calls = @ + 1]
           ELSE agent_contexts
    /\ UNCHANGED << llm_calls, dispatched, compactions, round_log, script,
                    script_n, read_streak, history_query >>

Next ==
    \/ SetupOk
    \/ SetupFails
    \/ LoopHead
    \/ CallLLMReturns
    \/ CallLLMRaises
    \/ HandleResponse
    \/ CheckCompletion
    \/ FinalReport
    \/ Unwind

Spec == Init /\ [][Next]_vars

\* every awaited call returns or raises, and the program keeps running
FairSpec == Spec /\ WF_vars(Next)

TypeOK ==
    /\ pc \in {"start", "loop_head", "call_llm", "handle", "check", "report",
               "unwind", "returned", "compaction", "validation", "guidance", "guided",
               "validated"}
    /\ iteration \in 0..max_iterations
    /\ now \in 0..(max_iterations * MaxCallDuration)
    /\ cause \in {"none", "complete", "timeout", "maxiter", "error"}
    /\ mcp_agent \in {"none", "entered"}

(***************************************************************************)
(* Properties.                                                             *)
(***************************************************************************)
Terminated == pc = "returned"

Report == retval.code_implementation

\* C1: however the run ends (completion phrase, time limit, iteration
\* limit, failure), the round counter at termination, and the iteration
\* count a report carries, never exceed max_iterations
C1_RoundCounterBounded ==
    pc \in {"report", "unwind", "returned"} =>
        /\ iteration <= max_iterations
        /\ Report.iterations <= max_iterations

\* a run that used up all its rounds
C1_Witness ==
    /\ Terminated
    /\ cause = "maxiter"
    /\ iteration = max_iterations
    /\ Report.iterations = max_iterations

\* C2: every run terminates, and a run ended by the time limit or the
\* iteration limit returns successfully with the final report carrying the
\* counters accumulated so far (the tool query of the reporter returning)
C2_TerminatesWithReport ==
    /\ <>Terminated
    /\ [](Terminated /\ cause \in {"timeout", "maxiter"} /\ history_query # "raised"
            => /\ retval.status = "success"
               /\ Report.kind = "report"
               /\ Report.iterations = iteration
               /\ Report.files_implemented = Len(files_implemented))

\* a run ended by the time limit after some rounds, with its report
C2_Witness ==
    /\ Terminated
    /\ cause = "timeout"
    /\ llm_calls >= 2
    /\ Report.kind = "report"
    /\ Report.iterations = iteration

\* C3: once the model call has failed, no further model call, tool
\* dispatch, compaction or change of the conversation happens, and the
\* caller gets the error dict with the message of the failure, no report
C3_ModelFailureAborts ==
    /\ [](exception = "LLM call failed" =>
            /\ pc \in {"unwind", "returned"}
            /\ cause = "error"
            /\ Report = NoReport
            /\ (Terminated => retval.status = "error"
                              /\ retval.message = "LLM call failed"))
    /\ [][exception = "LLM call failed" =>
            UNCHANGED << llm_calls, dispatched, compactions, messages, iteration >>]_vars

\* the model call failed in a later round and the caller has the error
C3_Witness ==
    /\ Terminated
    /\ exception = "LLM call failed"
    /\ llm_calls >= 2
    /\ retval.status = "error"

C5_ToolCallsDispatched ==
    pc = "check" =>
        /\ (api_response.tool_calls # <<>> =>
                /\ round_log.branch = "tools"
                /\ Len(round_log.tool_results) = Len(api_response.tool_calls)
                /\ round_log.guidance \in {"success", "error"})
        /\ (round_log.branch = "no_tools" => api_response.tool_calls = <<>>)

\* C6 (as claimed): n rounds of one successful write call each, then a
\* completion phrase: the run ends as complete with n files implemented
\* and n + 1 iterations
C6_ScenarioA ==
    Terminated /\ script = "writes_then_done" =>
        /\ cause = "complete"
        /\ Len(files_implemented) = script_n
        /\ iteration = script_n + 1
        /\ (Report.kind = "report" =>
                /\ Report.files_implemented = script_n
                /\ Report.iterations = script_n + 1)

C8_NoToolCallRound ==
    /\ [](pc = "check" /\ api_response.tool_calls = <<>> =>
            /\ round_log.branch = "no_tools"
            /\ round_log.tool_results = <<>>
            /\ Len(messages) >= 2
            /\ messages[Len(messages)].role = "user"
            /\ messages[Len(messages)].content[1] = "no_tools_guidance"
            /\ messages[Len(messages) - 1] = Message("assistant", response_content))
    /\ [][pc = "handle" /\ api_response.tool_calls = <<>> =>
            dispatched' = dispatched /\ Len(messages') = Len(messages) + 2]_vars
    /\ [][pc = "check" /\ api_response.tool_calls = <<>>
            /\ ~IsComplete(response_content) => pc' = "loop_head"]_vars
    /\ [][pc = "loop_head" /\ iteration < max_iterations /\ now <= max_time =>
            pc' = "call_llm" /\ iteration' = iteration + 1]_vars

\* a first round without tool call has been handled and the second round
\* is about to call the model
C8_Witness ==
    /\ pc = "call_llm"
    /\ iteration = 2
    /\ api_response.tool_calls = <<>>
    /\ round_log.guidance = "no_tools"
    /\ messages[Len(messages)].content[1] = "no_tools_guidance"

\* C9 (as claimed): when a tool asked for in a round fails, the round
\* records a result with status error, appends the error guidance and the
\* run continues
C9_ToolFailureRecovered ==
    pc = "check"
    /\ (\E i \in 1..Len(api_response.tool_calls) : ~api_response.tool_calls[i].ok) =>
        /\ \E j \in 1..Len(round_log.tool_results) :
                round_log.tool_results[j].result.status = "error"
        /\ round_log.guidance = "error"
        /\ exception = "none"

\* C10 (as claimed): after LoopWindow consecutive rounds asking only for
\* read calls the analysis-loop flag is set and the corrective guidance is
\* appended in that round; the flag is not set in a round that asks for a
\* write call
C10_AnalysisLoopFlag ==
    pc = "check" =>
        /\ (read_streak >= LoopWindow =>
                /\ round_log.analysis_loop
                /\ messages[Len(messages)].content = AnalysisLoopGuidance)
        /\ ((\E i \in 1..Len(api_response.tool_calls) :
                api_response.tool_calls[i].name \in WriteTools)
              => ~round_log.analysis_loop)

\* the model asked for a write call that succeeds when executed
SuccessfulWriteAsked(api) ==
    \E i \in 1..Len(api.tool_calls) :
        api.tool_calls[i].name \in WriteTools /\ api.tool_calls[i].ok

\* number of messages the round ended with, before any compaction
RoundMessageCount ==
    IF round_log.compacted THEN round_log.length_before ELSE Len(messages)

\* C11 (as claimed): a round that goes on to a next round has compacted
\* the conversation if and only if its tool call was a write that succeeds
\* or the message count exceeded the ceiling; a round with a successful
\* write has compacted before the next model call
C11_CompactionTrigger ==
    pc = "loop_head" /\ llm_calls > 0 =>
        (round_log.compacted <=>
            \/ SuccessfulWriteAsked(api_response)
            \/ RoundMessageCount > MessageCeiling)

MaxApplications == 2

\* results of read calls, as record_tool_result keeps them
EssentialResults ==
    { ExecuteToolCall(ToolCall("read_file", "a.py", <<>>, TRUE)),
      ExecuteToolCall(ToolCall("read_code_mem", "a.py", <<>>, TRUE)),
      ExecuteToolCall(ToolCall("search_code_references", "index", <<>>, FALSE)) }

\* the essential results recorded since the previous compaction
EssentialLists ==
    {<<>>} \cup { <<r>> : r \in EssentialResults }
           \cup { <<r1, r2>> : r1 \in EssentialResults, r2 \in EssentialResults }

\* conversations at the moment a compaction is applied
Conversations ==
    { <<InitialTask, Message("assistant", <<"prose">>),
        Message("user", GenerateNoToolsGuidance(0))>>,
      <<InitialTask, Message("assistant", <<"prose">>),
        Message("user", GenerateSuccessGuidance(1))>>,
      <<InitialTask, SynthesizedMessage(<<>>), Message("assistant", <<"prose">>),
        Message("user", GenerateErrorGuidance)>>,
      <<InitialTask, SynthesizedMessage(<<>>), Message("assistant", ContinueText),
        Message("user", GenerateSuccessGuidance(2)),
        Message("user", AnalysisLoopGuidance)>> }

CompactionInit ==
    /\ pc = "compaction"
    /\ messages \in Conversations
    /\ essential_results \in EssentialLists
    /\ last_write_detected \in BOOLEAN
    /\ exception = "none"
    /\ retval = NoRetval
    /\ mcp_agent = "entered"
    /\ iteration = 1
    /\ now = 0
    /\ api_response = NoApiResponse
    /\ response = NoResponse
    /\ response_content = <<>>
    /\ files_implemented = <<>>
    /\ recent_rounds = <<>>
    /\ current_round = 0
    /\ implemented_files = {}
    /\ operation_history = <<>>
    /\ cause = "none"
    /\ llm_calls = 0
    /\ dispatched = 0
    /\ compactions = 0
    /\ round_log = NoRound
    /\ script = "other"
    /\ script_n = 0
    /\ read_streak = 0
    /\ history_query = "none"
    /\ agent_contexts = LoopContexts

\* ApplyCompaction that leaves the essential results in place
ApplyCompaction_KeepsEssential ==
    /\ pc = "compaction"
    /\ compactions < MaxApplications
    /\ messages' = ApplyMemoryOptimization(SystemPrompt, essential_results)
    /\ essential_results' = essential_results
    /\ last_write_detected' = FALSE
    /\ compactions' = compactions + 1
    /\ round_log' = [round_log EXCEPT !.compacted = TRUE,
                                      !.length_before = Len(messages)]
    /\ UNCHANGED << pc, exception, retval, mcp_agent, iteration, now, api_response,
                    response, response_content, files_implemented, recent_rounds,
                    current_round, implemented_files, operation_history, cause,
                    llm_calls, dispatched, script, script_n, read_streak,
                    history_query, agent_contexts >>

\* messages = memory_agent.apply_memory_optimization(...): the conversation
\* is replaced, the essential results are cleared and last_write_detected
\* is reset
ApplyCompaction ==
    /\ pc = "compaction"
    /\ compactions < MaxApplications
    /\ messages' = ApplyMemoryOptimization(SystemPrompt, essential_results)
    /\ essential_results' = <<>>
    /\ last_write_detected' = FALSE
    /\ compactions' = compactions + 1
    /\ round_log' = [round_log EXCEPT !.compacted = TRUE,
                                      !.length_before = Len(messages)]
    /\ UNCHANGED << pc, exception, retval, mcp_agent, iteration, now, api_response,
                    response, response_content, files_implemented, recent_rounds,
                    current_round, implemented_files, operation_history, cause,
                    llm_calls, dispatched, script, script_n, read_streak,
                    history_query, agent_contexts >>

CompactionNext == ApplyCompaction

CompactionSpec == CompactionInit /\ [][CompactionNext]_vars

LoopStarted == pc \notin {"start", "compaction"} /\ exception \notin SetupFailures

\* C14: in every state of a run, before and after every round and every
\* compaction, the conversation the model reads begins with the one system
\* message, immediately followed by the initial task message; no other
\* message is a system message
C14_ConversationHead ==
    LoopStarted =>
        LET conversation == CombinedInput(SystemPrompt, messages)
        IN  /\ Len(conversation) >= 2
            /\ conversation[1] = [role |-> "system", content |-> <<"system_prompt">>]
            /\ conversation[2] = [role |-> "user", content |-> <<"task", "plan_content">>]
            /\ messages[1] = conversation[2]
            /\ \A i \in 2..Len(conversation) : conversation[i].role # "system"

\* a round has been handled after a compaction
C14_Witness ==
    /\ LoopStarted
    /\ compactions >= 1
    /\ ~round_log.compacted
    /\ Len(messages) = 4
    /\ messages[1].content = <<"task", "plan_content">>

\* C16 (as claimed): every write call that succeeds adds exactly one file
\* implementation record and nothing else adds one: while the model has
\* asked for one successful write per round, the number of records is the
\* number of those rounds
C16_RecordPerWrite ==
    script = "writes" =>
        /\ Len(files_implemented) = script_n
        /\ Cardinality(implemented_files) <= script_n

\* C17 (as claimed): at every round boundary and at termination by
\* completion, time limit or iteration limit, the round counter is the
\* number of rounds executed, that is of model calls made, and so are the
\* iteration count of the report and the round given to the memory agent
C17_RoundCounterIsRounds ==
    \/ pc = "loop_head"
    \/ Terminated /\ cause \in {"complete", "timeout", "maxiter"}
    => /\ iteration = llm_calls
       /\ current_round = llm_calls
       /\ (Report.kind = "report" => Report.iterations = llm_calls)

\* C18: at every model call the conversation holds at most MessageCeiling
\* messages, whatever the model has answered in the rounds before
C18_ContextBounded ==
    pc = "call_llm" =>
        /\ Len(messages) <= MessageCeiling
        /\ Len(ValidateMessages(messages)) <= MessageCeiling

\* a model call in a round after an emergency trim
C18_Witness ==
    /\ pc = "call_llm"
    /\ compactions >= 1
    /\ round_log.length_before > MessageCeiling
    /\ Len(messages) <= MessageCeiling

\* C19 (as claimed): the elapsed time is looked at once per round, at the
\* round boundary; no round starts once it has reached max_time, and at
\* termination it is at most max_time plus the duration of one round
C19_TimeLimit ==
    /\ [][pc = "loop_head" /\ now >= max_time => pc' # "call_llm"]_vars
    /\ [][pc # "call_llm" => now' = now]_vars
    /\ [](Terminated => now <= max_time + MaxCallDuration)

\* the tokens of the model's vocabulary that are a completion phrase when
\* the letter case is ignored
PhraseTokens == {"All Files Implemented", "all files implemented"}

\* the assistant text of the round carries a completion phrase
AssistantTextHasPhrase ==
    \E i \in 1..Len(response_content) : response_content[i] \in PhraseTokens

\* C20: the run ends as complete in a round exactly when the assistant
\* text of that round contains a completion phrase, in any letter case; a
\* round whose text has none goes on to the loop head, whatever its tool
\* calls were
C20_CompletionDetector ==
    /\ [][pc = "check" => (pc' = "report" /\ cause' = "complete"
                             <=> AssistantTextHasPhrase)]_vars
    /\ [][pc = "check" /\ ~AssistantTextHasPhrase => pc' = "loop_head"]_vars
    /\ [](cause = "complete" => AssistantTextHasPhrase)
    /\ [](pc = "check" => (IsComplete(response_content) <=> AssistantTextHasPhrase))

\* a run ended as complete by a phrase written with capitals
C20_Witness ==
    /\ Terminated
    /\ cause = "complete"
    /\ \E i \in 1..Len(response_content) : response_content[i] = "All Files Implemented"
    /\ llm_calls >= 2


\* an assistant message of an earlier round carries a completion phrase
PhraseSeenBefore ==
    \E i \in 1..(Len(messages) - 2) :
        /\ messages[i].role = "assistant"
        /\ \E j \in 1..Len(messages[i].content) : messages[i].content[j] \in PhraseTokens

\* C21 (as claimed): the round in which the completion phrase first
\* appears does not end the run; one more (verification) round is made
\* before the run ends as complete
C21_VerificationRound ==
    [][pc = "check" /\ AssistantTextHasPhrase /\ ~PhraseSeenBefore
          => cause' # "complete" /\ pc' = "loop_head"]_vars


\* C22 (as claimed): the tool calls of a round's model answer are
\* dispatched to one result per call, in the order of the calls, a failing
\* call giving a result with status error at its position, and the results
\* are compiled into the round's user message, each with its own call
C22_DispatchContract ==
    pc = "check" =>
        LET calls == api_response.tool_calls
            tool_results == round_log.tool_results
        IN  /\ Len(tool_results) = Len(calls)
            /\ \A i \in 1..Len(calls) :
                /\ i <= Len(tool_results)
                /\ tool_results[i].tool_name = calls[i].name
                /\ (tool_results[i].result.status = "error" <=> ~calls[i].ok)
            /\ calls # <<>> =>
                  \E guidance \in {GenerateErrorGuidance} \cup
                          {GenerateSuccessGuidance(n) : n \in 0..max_iterations} :
                      round_log.appended[2].content =
                          CompileUserResponse(ExecuteToolCalls(calls), guidance)


(***************************************************************************)
(* The validation pass on its own: _validate_messages applied to message   *)
(* dicts of any shape.                                                     *)
(***************************************************************************)
\* longest conversation given to the validation pass
MaxRawLen == 2

\* message dicts: the content is a string ("str"), the key is absent
\* ("missing"), or the value is not a string, as None ("none"); the role
\* key may be absent too
RawMessages ==
    [role : {"user", "assistant", "missing"}, kind : {"str"},
     content : {<<>>, <<"ws">>, <<"prose">>, <<"ws", "prose", "ws">>}]
    \cup [role : {"user", "assistant", "missing"}, kind : {"missing", "none"},
          content : {<<>>}]

RawConversations == UNION { [1..n -> RawMessages] : n \in 0..MaxRawLen }

\* msg.get("role", "user")
GetRole(msg) == IF msg.role = "missing" THEN "user" ELSE msg.role

\* msg.get("content", ""): the default only replaces an absent key
GetContent(msg) == IF msg.kind = "missing" THEN <<>> ELSE msg.content

\* .strip() exists on strings only: a content of any other type raises
\* AttributeError in the loop of _validate_messages
StripRaises(msgs) == \E i \in 1..Len(msgs) : msgs[i].kind = "none"

ValidationInit ==
    /\ pc = "validation"
    /\ messages \in RawConversations
    /\ essential_results = <<>>
    /\ last_write_detected = FALSE
    /\ exception = "none"
    /\ retval = NoRetval
    /\ mcp_agent = "entered"
    /\ iteration = 1
    /\ now = 0
    /\ api_response = NoApiResponse
    /\ response = NoResponse
    /\ response_content = <<>>
    /\ files_implemented = <<>>
    /\ recent_rounds = <<>>
    /\ current_round = 0
    /\ implemented_files = {}
    /\ operation_history = <<>>
    /\ cause = "none"
    /\ llm_calls = 0
    /\ dispatched = 0
    /\ compactions = 0
    /\ round_log = NoRound
    /\ script = "other"
    /\ script_n = 0
    /\ read_streak = 0
    /\ history_query = "none"
    /\ agent_contexts = LoopContexts

\* messages = self._validate_messages(messages), every content a string
ValidateReturns ==
    /\ pc = "validation"
    /\ ~StripRaises(messages)
    /\ messages' = ValidateMessages(
                       [i \in 1..Len(messages) |->
                           Message(GetRole(messages[i]), GetContent(messages[i]))])
    /\ pc' = "validated"
    /\ UNCHANGED << exception, retval, mcp_agent, iteration, now, api_response,
                    response, response_content, cause >>
    /\ UNCHANGED agent_vars
    /\ UNCHANGED history_vars

\* messages = self._validate_messages(messages), a content that is not a
\* string: the AttributeError leaves the loop and implement_code_pure
ValidateRaises ==
    /\ pc = "validation"
    /\ StripRaises(messages)
    /\ exception' = "AttributeError"
    /\ cause' = "error"
    /\ pc' = "unwind"
    /\ UNCHANGED << retval, mcp_agent >>
    /\ UNCHANGED loop_vars
    /\ UNCHANGED agent_vars
    /\ UNCHANGED history_vars

ValidationNext ==
    \/ ValidateReturns
    \/ ValidateRaises
    \/ Unwind

ValidationSpec == ValidationInit /\ [][ValidationNext]_vars

\* a message dict the model can be given: a string content with something
\* other than whitespace in it
WellFormed(msg) ==
    /\ msg.kind = "str"
    /\ \E j \in 1..Len(msg.content) : msg.content[j] # "ws"

\* the well-formed messages of a conversation, in their order
RECURSIVE KeptMessages(_)
KeptMessages(msgs) ==
    IF msgs = <<>> THEN <<>>
    ELSE (IF WellFormed(Head(msgs))
          THEN <<Message(GetRole(Head(msgs)), Strip(Head(msgs).content))>>
          ELSE <<>>) \o KeptMessages(Tail(msgs))

\* C23 (as claimed): the validation pass drops every message whose content
\* is empty, whitespace only, missing or not a string, keeps the others in
\* their order, the model is given no message with an empty content, and
\* no message dict makes the run fail
C23_ValidationPass ==
    /\ [][pc = "validation" =>
            /\ pc' = "validated"
            /\ messages' = KeptMessages(messages)
            /\ \A i \in 1..Len(CombinedInput(SystemPrompt, messages')) :
                  CombinedInput(SystemPrompt, messages')[i].content # <<>>]_vars
    /\ [](exception # "AttributeError" /\ retval.status # "error")


(***************************************************************************)
(* The choice of the guidance on its own: _check_tool_results_for_errors   *)
(* and _compile_user_response applied to the results of a batch.           *)
(***************************************************************************)
\* largest batch of tool results
MaxBatch == 2

\* the values of result["result"]: the status the tool reported, the shape
\* of the value and its text; the text of a string or of a non-JSON content
\* that reports an error carries the word
ResultValues ==
    [form : {"json", "dict"}, status : {"ok", "error"},
     text : {<<"output">>, <<"output", "error">>}]
    \cup [form : {"str", "text"}, status : {"ok"},
          text : {<<"output">>, <<"output", "error">>}]
    \cup [form : {"str", "text"}, status : {"error"},
          text : {<<"error", "output">>}]

\* the tool results of a batch
ToolResults == [tool_name : {"read_file"}, result : ResultValues]

ResultBatches == UNION { [1..n -> ToolResults] : n \in 1..MaxBatch }

GuidanceInit ==
    /\ pc = "guidance"
    /\ round_log \in { [NoRound EXCEPT !.branch = "tools", !.tool_results = batch] :
                          batch \in ResultBatches }
    /\ messages = <<InitialTask, Message("assistant", <<"prose">>)>>
    /\ essential_results = <<>>
    /\ last_write_detected = FALSE
    /\ exception = "none"
    /\ retval = NoRetval
    /\ mcp_agent = "entered"
    /\ iteration = 1
    /\ now = 0
    /\ api_response = NoApiResponse
    /\ response = NoResponse
    /\ response_content = <<"prose">>
    /\ files_implemented = <<>>
    /\ recent_rounds = <<>>
    /\ current_round = 0
    /\ implemented_files = {}
    /\ operation_history = <<>>
    /\ cause = "none"
    /\ llm_calls = 1
    /\ dispatched = 0
    /\ compactions = 0
    /\ script = "other"
    /\ script_n = 0
    /\ read_streak = 0
    /\ history_query = "none"
    /\ agent_contexts = LoopContexts

\* has_error = self._check_tool_results_for_errors(tool_results) up to
\* messages.append({"role": "user", "content": compiled_response})
ChooseGuidance ==
    /\ pc = "guidance"
    /\ LET tool_results == round_log.tool_results
           has_error == CheckToolResultsForErrors(tool_results)
           guidance == IF has_error THEN GenerateErrorGuidance
                       ELSE GenerateSuccessGuidance(Len(files_implemented))
           user == Message("user", CompileUserResponse(tool_results, guidance))
       IN  /\ messages' = Append(messages, user)
           /\ round_log' = [round_log EXCEPT
                               !.guidance = IF has_error THEN "error" ELSE "success",
                               !.appended = <<user>>]
    /\ pc' = "guided"
    /\ UNCHANGED << exception, retval, mcp_agent, iteration, now, api_response,
                    response, response_content, cause >>
    /\ UNCHANGED agent_vars
    /\ UNCHANGED << llm_calls, dispatched, compactions, script, script_n,
                    read_streak, history_query, agent_contexts >>

GuidanceNext == ChooseGuidance

GuidanceSpec == GuidanceInit /\ [][GuidanceNext]_vars

\* at least one result of the round reports the status error
SomeStatusError ==
    \E i \in 1..Len(round_log.tool_results) :
        round_log.tool_results[i].result.status = "error"

\* C24 (as claimed): the user message of a round with tool results carries
\* exactly one of the success and error templates, and the error template
\* exactly when some result of the round has the status error, whatever
\* the texts of the results
C24_GuidanceChoice ==
    [][pc = "guidance" =>
          LET content == messages'[Len(messages')].content
              has(tok) == \E j \in 1..Len(content) : content[j] = tok
          IN  /\ has("error_guidance") # has("success_guidance")
              /\ (has("error_guidance") <=> SomeStatusError)
              /\ (round_log'.guidance = "error" <=> SomeStatusError)]_vars


(***************************************************************************)
(* The memory engine on its own: tool results are recorded and the         *)
(* conversation is compacted, in any order.                                *)
(***************************************************************************)
\* most tool results recorded in a run of the engine
MaxRecorded == 3

\* the calls whose results are given to record_tool_result
RecordedCalls ==
    { ToolCall("read_file", "a.py", <<>>, TRUE),
      ToolCall("read_code_mem", "b.py", <<>>, TRUE),
      ToolCall("search_code_references", "index", <<>>, FALSE),
      ToolCall("write_file", "a.py", <<"code">>, TRUE),
      ToolCall("write_file", "b.py", <<"code">>, FALSE),
      ToolCall("execute_python", "a.py", <<>>, TRUE) }

\* memory_agent.record_tool_result(tool_name, tool_input, tool_result)
RecordToolResult ==
    /\ pc = "compaction"
    /\ dispatched < MaxRecorded
    /\ \E call \in RecordedCalls :
        /\ essential_results' =
               RecordEssential(essential_results, call, ExecuteToolCall(call))
        /\ last_write_detected' =
               (last_write_detected
                   \/ WriteDetected(<<call>>, <<ExecuteToolCall(call)>>))
        /\ dispatched' = dispatched + 1
    /\ UNCHANGED << pc, exception, retval, mcp_agent, iteration, now, messages,
                    api_response, response, response_content, files_implemented,
                    recent_rounds, current_round, implemented_files,
                    operation_history, cause, llm_calls, compactions, round_log,
                    script, script_n, read_streak, history_query, agent_contexts >>

MemoryInit == CompactionInit

MemoryNext ==
    \/ RecordToolResult
    \/ ApplyCompaction

MemorySpec == MemoryInit /\ [][MemoryNext]_vars

\* the tool names in the result blocks of a text
BlockTools(content) ==
    { content[j + 1] : j \in { k \in 1..(Len(content) - 1) : content[k] = "Tool:" } }

MaxLedger == 3

\* the entries of the operation history of the MCP server
LedgerEntries ==
    { [action |-> "write_file", file_path |-> "a.py"],
      [action |-> "read_file", file_path |-> "a.py"] }

Ledgers == UNION { [1..n -> LedgerEntries] : n \in 0..MaxLedger }

\* the records of the progress tracker
FileRecordLists ==
    { <<>>,
      <<[path |-> "a.py", round_index |-> 1]>>,
      <<[path |-> "a.py", round_index |-> 1], [path |-> "b.py", round_index |-> 2]>> }

ReportInit ==
    /\ pc = "report"
    /\ iteration \in 1..max_iterations
    /\ files_implemented \in FileRecordLists
    /\ operation_history \in Ledgers
    /\ cause \in {"complete", "maxiter"}
    /\ messages = <<InitialTask>>
    /\ essential_results = <<>>
    /\ last_write_detected = FALSE
    /\ exception = "none"
    /\ retval = NoRetval
    /\ mcp_agent = "entered"
    /\ now = 0
    /\ api_response = NoApiResponse
    /\ response = NoResponse
    /\ response_content = <<>>
    /\ recent_rounds = <<>>
    /\ current_round = 0
    /\ implemented_files = {}
    /\ llm_calls = 0
    /\ dispatched = 0
    /\ compactions = 0
    /\ round_log = NoRound
    /\ script = "other"
    /\ script_n = 0
    /\ read_streak = 0
    /\ history_query = "none"
    /\ agent_contexts = LoopContexts

ReportNext ==
    \/ FinalReport
    \/ Unwind

ReportSpec == ReportInit /\ [][ReportNext]_vars

\* number of write_file entries of a ledger
WriteEntries(history) ==
    Cardinality({ i \in 1..Len(history) : history[i].action = "write_file" })

\* C27 (as claimed): the report carries the round counter, the count of
\* the progress tracker and the number of write_file entries of the tool
\* ledger; when building it fails, the failure text is returned and no
\* exception leaves the reporter
C27_ReportAggregates ==
    [][pc = "report" =>
          LET report == retval'.code_implementation
          IN  /\ exception' = "none"
              /\ \/ /\ history_query' = "raised"
                    /\ report.kind = "failure_text"
                 \/ /\ history_query' # "raised"
                    /\ report.kind = "report"
                    /\ report.iterations = iteration
                    /\ report.files_implemented = Len(files_implemented)
                    /\ report.write_operations = WriteEntries(operation_history)]_vars


\* the phrase the guidance texts ask for, in the letter cases of the
\* model's vocabulary
InstructedPhraseTokens == {"Implementation Complete", "implementation complete"}

\* the assistant text of the round carries the phrase the guidance asked for
AssistantTextAsInstructed ==
    \E i \in 1..Len(response_content) : response_content[i] \in InstructedPhraseTokens

\* C28 (as claimed): once a guidance message has asked for it, a round
\* whose assistant text contains "implementation complete" ends the run as
\* complete
C28_InstructedPhraseCompletes ==
    [][pc = "check" /\ llm_calls >= 2 /\ AssistantTextAsInstructed
          => pc' = "report" /\ cause' = "complete"]_vars


\* C29: on every path through run_workflow the MCP agent that was entered
\* for the run is exited exactly once, never while the loop or the reporter
\* still runs, in a run that ends with a report only after the report has
\* been built (the reporter always finds it open), and self.mcp_agent is
\* None when run_workflow returns
C29_McpAgentClosedOnce ==
    /\ [](Terminated =>
            /\ mcp_agent = "none"
            /\ (agent_contexts.mcp_agent.entered = 1
                    => agent_contexts.mcp_agent.aexit_calls = 1))
    /\ [](agent_contexts.mcp_agent.aexit_calls <= 1)
    /\ [](pc \in {"loop_head", "call_llm", "handle", "check", "report"} =>
            /\ mcp_agent = "entered"
            /\ agent_contexts.mcp_agent = EnteredContext)
    /\ [][agent_contexts'.mcp_agent.aexit_calls > agent_contexts.mcp_agent.aexit_calls
             /\ cause \in {"complete", "timeout", "maxiter"}
            => Report.kind \in {"report", "failure_text"}]_vars
    /\ [][Report' # Report /\ Report'.kind # "none"
            => agent_contexts.mcp_agent.aexit_calls = 0 /\ mcp_agent = "entered"]_vars

\* a run that ended as complete: its report was built and the agent then
\* exited once
C29_Witness ==
    /\ Terminated
    /\ cause = "complete"
    /\ Report.kind = "report"
    /\ agent_contexts.mcp_agent = ClosedContext
    /\ mcp_agent = "none"

\* C30 (as claimed): __aexit__ is called on an agent only after its
\* __aenter__ has returned, for the structure agent and for the MCP agent
C30_ExitOnlyIfEntered ==
    /\ agent_contexts.structure_agent.aexit_calls
           <= agent_contexts.structure_agent.entered
    /\ agent_contexts.mcp_agent.aexit_calls <= agent_contexts.mcp_agent.entered

=============================================================================
